---- MODULE Spec2Model ----
(***************************************************************************)
(* Retrieval pipeline of RAG_support: the text chunker                     *)
(* (TextChunkerService), the in-memory vector index (VectorDbService),     *)
(* the batched embedder calls (EmbeddingService), the crawler              *)
(* (WebScraperService) and the initialize/query orchestrator (RagService,  *)
(* RagController).  Each component has its own specification: ChunkSpec,   *)
(* VecSpec, EmbedSpec, CrawlSpec, PairSpec (two crawl sessions on the one  *)
(* service) and Spec.                                                      *)
(*                                                                         *)
(* Text is a sequence of one-character tokens; offsets are 0-based and     *)
(* end-exclusive as in the source, so character k of a text t is t[k+1].   *)
(***************************************************************************)
EXTENDS Integers, Sequences, FiniteSets, TLC

VARIABLES
  text,        \* chunkText: the argument
  startChar,   \* chunkText: let startChar
  index,       \* chunkText: let index
  chunks,      \* chunkText: const chunks
  cpc,         \* chunkText: "loop" while in the while loop, "done" after return
  websiteUrl,     \* RagService.websiteUrl
  isInitialized,  \* RagService.isInitialized
  documents,      \* VectorDbService.documents
  ini,            \* the Initialize requests: position and locals of each
  qry,            \* the Query requests: position and locals of each
  found,          \* VectorDbService.searchSimilar: the last call and what it returned
  emb,            \* EmbeddingService.generateEmbeddings: position and locals of the call
  crawl,          \* WebScraperService.scrapeWebsite: position, fields and locals of the session
  pair            \* WebScraperService: its visitedUrls field and two sessions that share it

chunkVars == <<text, startChar, index, chunks, cpc>>

ragVars == <<websiteUrl, isInitialized, documents, ini, qry>>

\* the components that are driven on their own
sideVars == <<found, emb, crawl, pair>>

vars == <<text, startChar, index, chunks, cpc,
          websiteUrl, isInitialized, documents, ini, qry,
          found, emb, crawl, pair>>

----------------------------------------------------------------------------
(* Helpers *)

Min(a, b) == IF a < b THEN a ELSE b

Max(a, b) == IF a > b THEN a ELSE b

MinOf(S) == CHOOSE x \in S : \A y \in S : x <= y

\* String.prototype.slice(s, e) for 0 <= s, e
Slice(t, s, e) == SubSeq(t, s + 1, Min(e, Len(t)))

----------------------------------------------------------------------------
(* TextChunkerService *)

chunkSize == 1000

chunkOverlap == 200

\* the literal 200 of findSentenceBoundary
boundaryWindow == 200

\* [.!?]
SentencePunct == {".", "!", "?"}

\* \s
Whitespace == {" ", "\n"}

\* start offsets p, searchStart <= p, of the matches of /[.!?]\s+/ inside
\* text.slice(searchStart, end)
SentenceMatches(t, searchStart, end) ==
  {p \in searchStart..(end - 2) : t[p + 1] \in SentencePunct /\ t[p + 2] \in Whitespace}

\* end offset of the greedy \s+ that starts at offset q, inside the slice
WhitespaceRunEnd(t, q, end) ==
  CHOOSE j \in q..end :
    /\ j = end \/ t[j + 1] \notin Whitespace
    /\ \A k \in q..(j - 1) : t[k + 1] \in Whitespace

\* start offsets of the matches of /\n\n/ inside text.slice(searchStart, end)
ParagraphMatches(t, searchStart, end) ==
  {p \in searchStart..(end - 2) : t[p + 1] = "\n" /\ t[p + 2] = "\n"}

\* a plausible slip: the offset of the match itself, not of its end
findSentenceBoundaryAtMatch(t, start, end) ==
  LET searchStart == Max(start, end - boundaryWindow)
      sentenceEnd == SentenceMatches(t, searchStart, end)
      paragraphEnd == ParagraphMatches(t, searchStart, end)
  IN  IF sentenceEnd # {}
        THEN MinOf(sentenceEnd)
        ELSE IF paragraphEnd # {}
               THEN MinOf(paragraphEnd)
               ELSE end

\* RegExp.prototype.exec without the g flag returns the first match
findSentenceBoundary(t, start, end) ==
  LET searchStart == Max(start, end - boundaryWindow)
      sentenceEnd == SentenceMatches(t, searchStart, end)
      paragraphEnd == ParagraphMatches(t, searchStart, end)
  IN  IF sentenceEnd # {}
        THEN WhitespaceRunEnd(t, MinOf(sentenceEnd) + 2, end)
        ELSE IF paragraphEnd # {}
               THEN MinOf(paragraphEnd) + 2
               ELSE end

\* const endChar = Math.min(startChar + this.chunkSize, text.length)
TentativeEnd(t, start) == Min(start + chunkSize, Len(t))

\* a plausible slip: the floor is the old start, not start + chunkSize
NextStartNoProgress(adjustedEnd, start) ==
  Max(adjustedEnd - chunkOverlap, start)

\* startChar = Math.max(adjustedEnd - this.chunkOverlap, startChar + this.chunkSize)
NextStart(adjustedEnd, start) ==
  Max(adjustedEnd - chunkOverlap, start + chunkSize)

\* the record pushed by one iteration of the loop
MakeChunk(t, start, idx) ==
  LET adjustedEnd == findSentenceBoundary(t, start, TentativeEnd(t, start))
  IN  [text |-> Slice(t, start, adjustedEnd), index |-> idx,
       startChar |-> start, endChar |-> adjustedEnd]

\* chunkText as a function: the chunks pushed from offset start on
RECURSIVE ChunksFrom(_, _, _)
ChunksFrom(t, start, idx) ==
  IF start < Len(t)
    THEN LET c == MakeChunk(t, start, idx)
         IN  <<c>> \o ChunksFrom(t, NextStart(c.endChar, start), idx + 1)
    ELSE <<>>

chunkText(t) == ChunksFrom(t, 0, 0)

----------------------------------------------------------------------------
(* Inputs of the chunker: runs of plain characters joined by separators *)

\* number of separators in a generated text
MaxSeps == 2

RunLens == {0, 1, 150, 799, 1000}

Separators == {<<".">>, <<".", " ">>, <<"?", " ", " ">>, <<"\n", "\n">>}

Plain(n) == [i \in 1..n |-> "a"]

RECURSIVE Assemble(_, _)
Assemble(runs, seps) ==
  IF Len(seps) = 0
    THEN Plain(runs[1])
    ELSE Plain(runs[1]) \o seps[1] \o Assemble(Tail(runs), Tail(seps))

ChunkerInputs ==
  {Assemble(runs, seps) : runs \in [1..(MaxSeps + 1) -> RunLens],
                          seps \in [1..MaxSeps -> Separators]}

----------------------------------------------------------------------------
(* VectorDbService *)

RECURSIVE Dot(_, _)
Dot(a, b) == IF Len(a) = 0 THEN 0 ELSE a[1] * b[1] + Dot(Tail(a), Tail(b))

\* cosineSimilarity(vecA, vecB) = dot / (sqrt(normA) * sqrt(normB)), or 0
\* when a norm is 0.  x |-> sign(x) * x^2 is strictly increasing, so the
\* similarity is kept as the exact fraction num / den of its signed square.
cosineSimilarity(vecA, vecB) ==
  LET dotProduct == Dot(vecA, vecB)
      normA == Dot(vecA, vecA)
      normB == Dot(vecB, vecB)
  IN  IF normA = 0 \/ normB = 0
        THEN [num |-> 0, den |-> 1]
        ELSE [num |-> (IF dotProduct < 0 THEN -1 ELSE 1) * dotProduct * dotProduct,
              den |-> normA * normB]

\* a plausible slip: a comparator that also moves an equal element forward
SimGreaterOrEqual(x, y) == x.num * y.den >= y.num * x.den

\* b.similarity - a.similarity > 0
SimGreater(x, y) == x.num * y.den > y.num * x.den

\* Array.prototype.sort((a, b) => b.similarity - a.similarity) is stable:
\* insert item after every element that is not smaller
RECURSIVE InsertDesc(_, _)
InsertDesc(sorted, item) ==
  IF Len(sorted) = 0
    THEN <<item>>
    ELSE IF SimGreater(item.similarity, sorted[1].similarity)
           THEN <<item>> \o sorted
           ELSE <<sorted[1]>> \o InsertDesc(Tail(sorted), item)

RECURSIVE SortDesc(_)
SortDesc(items) ==
  IF Len(items) = 0
    THEN <<>>
    ELSE InsertDesc(SortDesc(SubSeq(items, 1, Len(items) - 1)), items[Len(items)])

\* cosineSimilarity throws 'Vectors must have the same length' inside the
\* map of searchSimilar, for the first stored embedding of another length
searchSimilarThrows(docs, queryEmbedding) ==
  \E i \in 1..Len(docs) : Len(docs[i].embedding) # Len(queryEmbedding)

\* a plausible slip: the catch of searchSimilar logs the error and answers
\* with no documents
searchSimilarCatchSwallows(error) == "none"

\* catch (error) { this.logger.error(...); throw error; } of searchSimilar
searchSimilarCatch(error) == error

\* a plausible slip: the slice is taken without the sort
searchSimilarUnsorted(docs, queryEmbedding, topK) ==
  [i \in 1..Min(topK, Len(docs)) |-> docs[i]]

\* searchSimilar(queryEmbedding, topK) over the collection docs
searchSimilar(docs, queryEmbedding, topK) ==
  IF Len(docs) = 0
    THEN <<>>
    ELSE LET similarities ==
               [i \in 1..Len(docs) |->
                  [document |-> docs[i],
                   similarity |-> cosineSimilarity(queryEmbedding, docs[i].embedding)]]
             sorted == SortDesc(similarities)
         IN  [i \in 1..Min(topK, Len(sorted)) |-> sorted[i].document]

\* a plausible slip: the sort of searchSimilar is applied to the collection
\* itself
DocumentsAfterSearchSortedInPlace(docs, queryEmbedding) ==
  IF searchSimilarThrows(docs, queryEmbedding)
    THEN docs
    ELSE searchSimilar(docs, queryEmbedding, Len(docs))

\* this.documents after searchSimilar: map builds a new array, and sort
\* and slice work on that one
DocumentsAfterSearch(docs, queryEmbedding) == docs

\* clearCollection: this.documents = []
clearCollection(docs) == <<>>

\* a plausible slip: addDocuments replaces the collection
addDocumentsReplace(docs, new) == new

\* addDocuments: this.documents.push(...documents)
addDocuments(docs, new) == docs \o new

----------------------------------------------------------------------------
(* The world the orchestrator runs in *)

\* the Initialize requests of one behaviour: two, which may overlap
InitRuns == {1, 2}

\* the Query requests of one behaviour
MaxQueries == 1

QueryRuns == 1..MaxQueries

\* seed URLs that pass z.string().url()
Urls == {"u1", "u2"}

\* the urls arrays of the requests: none, one or two distinct seeds
SeedLists == {<<>>, <<"u1">>, <<"u2">>, <<"u1", "u2">>, <<"u2", "u1">>}

\* a field of a request body that is absent
Absent == "absent"

\* the urls field when it is absent
AbsentList == <<Absent>>

\* websiteUrl after urls[0] of an empty array
Undefined == "undefined"

Null == "null"

\* bodies of POST /rag/initialize
InitializeDtos == [url : Urls \cup {Absent}, urls : SeedLists \cup {AbsentList}]

\* bodies' query field of POST /rag/query: empty, blank, a question
QueryTexts == {<<>>, <<" ">>, <<"q">>}

\* vectors the external embedder answers with
EmbedVectors == {<<1, 0>>, <<0, 1>>}

\* vectors the embedder answers a query with: those, or one of another
\* length (the embedding model was changed after the index was built)
QueryVectors == EmbedVectors \cup {<<1>>}

\* answers of the embedder to the n texts of one generateEmbeddings call
EmbedderAnswers(n) == {[i \in 1..n |-> v] : v \in EmbedVectors}

\* the text scrapeSinglePage extracts from the one page of each site
\* (cleanText leaves no newline and no outer blank)
PageContent(url) ==
  IF url = "u1"
    THEN <<"a", "a", ".", " ", "a", "a">>
    ELSE Plain(700) \o <<"!", " ">> \o Plain(500)

\* scrapeWebsite's result for a site of one page:
\* `\n\n=== Page: ${currentUrl} ===\n\n${pageContent}`
scrapeWebsiteContent(url) ==
  <<"\n", "\n", "=== Page: ", url, " ===", "\n", "\n">> \o PageContent(url)

\* `\n\n=== Website: ${url} ===\n\n${content}`
WebsiteBlock(url) ==
  <<"\n", "\n", "=== Website: ", url, " ===", "\n", "\n">> \o scrapeWebsiteContent(url)

\* allContent.join('\n\n') for the sites scraped
RECURSIVE combinedContent(_)
combinedContent(scraped) ==
  IF Len(scraped) = 0
    THEN <<>>
    ELSE IF Len(scraped) = 1
           THEN WebsiteBlock(scraped[1])
           ELSE WebsiteBlock(scraped[1]) \o <<"\n", "\n">> \o combinedContent(Tail(scraped))

----------------------------------------------------------------------------
(* RagController and RagService *)

\* InitializeRagDtoSchema.refine: data.url || (data.urls && data.urls.length > 0)
ValidInitializeDto(dto) ==
  dto.url # Absent \/ (dto.urls # AbsentList /\ Len(dto.urls) > 0)

\* initializeDto.urls || (initializeDto.url ? [initializeDto.url] : []);
\* an empty array is truthy
ControllerUrls(dto) ==
  IF dto.urls # AbsentList
    THEN dto.urls
    ELSE IF dto.url # Absent THEN <<dto.url>> ELSE <<>>

\* sourceUrl of a chunk: the url of the first marker in its text, else urls[0]
MarkerUrls(t) ==
  {p \in 1..(Len(t) - 2) :
     /\ t[p] \in {"=== Page: ", "=== Website: "}
     /\ t[p + 1] \in Urls
     /\ t[p + 2] = " ==="}

SourceUrl(t, urls) ==
  IF MarkerUrls(t) # {} THEN t[MinOf(MarkerUrls(t)) + 1] ELSE urls[1]

\* the document built from a chunk of run r; its text field, the chunk text
\* without the markers, is read by no action of the model and is left out
MakeDocument(r, chunk, embedding, urls) ==
  [id |-> <<r, chunk.index>>,
   embedding |-> embedding,
   metadata |-> [index |-> chunk.index, startChar |-> chunk.startChar,
                 endChar |-> chunk.endChar,
                 source |-> SourceUrl(chunk.text, urls), baseUrls |-> urls]]

IdleInit ==
  [pc |-> "idle", urls |-> <<>>, pos |-> 0, scraped |-> <<>>,
   chunks |-> <<>>, newDocs |-> <<>>, status |-> 0, stage |-> "none"]

IdleQuery ==
  [pc |-> "idle", query |-> <<>>, embedCalls |-> 0, searchCalls |-> 0, llmCalls |-> 0,
   results |-> <<>>, status |-> 0, error |-> "none", answer |-> <<>>,
   queryEmbedding |-> <<>>]

RagInit ==
  /\ websiteUrl = Null
  /\ isInitialized = FALSE
  /\ documents = <<>>
  /\ ini = [r \in InitRuns |-> IdleInit]
  /\ qry = [q \in QueryRuns |-> IdleQuery]

\* no searchSimilar call has returned since the collection last changed
NoSearch == [status |-> "none", query |-> <<>>, topK |-> 0, results |-> <<>>]

\* no generateEmbeddings call is running
IdleEmbed ==
  [pc |-> "idle", texts |-> <<>>, i |-> 0, batch |-> <<>>, batchEmbeddings |-> <<>>,
   embeddings |-> <<>>, outOfOrder |-> FALSE, orphans |-> 0]

\* no URL: the value of a URL-valued local that holds nothing
NoUrl == [origin |-> "", path |-> <<>>, search |-> "", hash |-> ""]

\* no scrapeWebsite call is running
IdleCrawl ==
  [pc |-> "idle", seed |-> NoUrl, baseUrl |-> "", visitedUrls |-> {},
   urlsToVisit |-> <<>>, allContent |-> <<>>, currentUrl |-> NoUrl, status |-> 0,
   fetches |-> <<>>, enqueued |-> <<>>]

\* the service's visitedUrls field is empty and none of the scrapeWebsite
\* calls of the Initialize runs is running
IdlePair == [visitedUrls |-> {}, session |-> [r \in InitRuns |-> IdleCrawl]]

\* the components that are driven on their own are at rest
SideInit ==
  /\ found = NoSearch
  /\ emb = IdleEmbed
  /\ crawl = IdleCrawl
  /\ pair = IdlePair

\* the outer catch of initializeRag: every error leaves as a 500; the
\* locals of a run that has returned are dropped, but for scraped
Returned(run, pc, status, stage) ==
  [IdleInit EXCEPT !.pc = pc, !.status = status, !.stage = stage,
                   !.scraped = run.scraped]

InitFail(r, run, stage) ==
  ini' = [ini EXCEPT ![r] = Returned(run, "failed", 500, stage)]

\* after the for loop over urls: the checks, the chunker, and the call of
\* generateEmbeddings; run is the run's record when the loop ends
AfterScrapeLoop(r, run) ==
  IF Len(run.scraped) = 0
    THEN InitFail(r, run, "noContent")
    ELSE LET cs == chunkText(combinedContent(run.scraped))
         IN  IF Len(cs) = 0
               THEN InitFail(r, run, "noChunks")
               ELSE ini' = [ini EXCEPT ![r] = [run EXCEPT !.pc = "embedding",
                                                           !.chunks = cs]]

\* a plausible slip: the ready flag is set where the primary URL is
\* recorded, before the work is done
InitializeRequestSetsReady(r, dto) ==
  /\ ini[r].pc = "idle"
  /\ r > 1 => ini[r - 1].pc # "idle"
  /\ IF ~ValidInitializeDto(dto)
       THEN /\ ini' = [ini EXCEPT ![r] = Returned(ini[r], "failed", 400, "validation")]
            /\ UNCHANGED <<websiteUrl, isInitialized>>
       ELSE LET urls == ControllerUrls(dto)
                run == [ini[r] EXCEPT !.urls = urls, !.pos = 1, !.pc = "scraping"]
            IN  /\ websiteUrl' = IF Len(urls) > 0 THEN urls[1] ELSE Undefined
                /\ isInitialized' = TRUE
                /\ IF Len(urls) = 0
                     THEN AfterScrapeLoop(r, run)
                     ELSE ini' = [ini EXCEPT ![r] = run]
  /\ UNCHANGED <<documents, qry>>
  /\ UNCHANGED <<chunkVars, sideVars>>

\* POST /rag/initialize: the validation pipe, RagController.initialize and
\* initializeRag up to its first await; requests are numbered as they arrive
InitializeRequest(r, dto) ==
  /\ ini[r].pc = "idle"
  /\ r > 1 => ini[r - 1].pc # "idle"
  /\ IF ~ValidInitializeDto(dto)
       THEN /\ ini' = [ini EXCEPT ![r] = Returned(ini[r], "failed", 400, "validation")]
            /\ UNCHANGED websiteUrl
       ELSE LET urls == ControllerUrls(dto)
                run == [ini[r] EXCEPT !.urls = urls, !.pos = 1, !.pc = "scraping"]
            IN  /\ websiteUrl' = IF Len(urls) > 0 THEN urls[1] ELSE Undefined
                /\ IF Len(urls) = 0
                     THEN AfterScrapeLoop(r, run)
                     ELSE ini' = [ini EXCEPT ![r] = run]
  /\ UNCHANGED <<isInitialized, documents, qry>>
  /\ UNCHANGED <<chunkVars, sideVars>>

\* a plausible slip: a seed whose crawl fails ends the run
ScrapeSettlesFatal(r, ok) ==
  /\ ini[r].pc = "scraping"
  /\ LET url == ini[r].urls[ini[r].pos]
         run == [ini[r] EXCEPT
                   !.scraped = IF ok THEN Append(@, url) ELSE @,
                   !.pos = @ + 1]
     IN  IF ~ok
           THEN InitFail(r, run, "noContent")
           ELSE IF run.pos <= Len(run.urls)
                  THEN ini' = [ini EXCEPT ![r] = run]
                  ELSE AfterScrapeLoop(r, run)
  /\ UNCHANGED <<websiteUrl, isInitialized, documents, qry>>
  /\ UNCHANGED <<chunkVars, sideVars>>

\* await scrapeWebsite(url) settles for the seed at pos: pushed on success,
\* skipped with a warning on failure
ScrapeSettles(r, ok) ==
  /\ ini[r].pc = "scraping"
  /\ LET url == ini[r].urls[ini[r].pos]
         run == [ini[r] EXCEPT
                   !.scraped = IF ok THEN Append(@, url) ELSE @,
                   !.pos = @ + 1]
     IN  IF run.pos <= Len(run.urls)
           THEN ini' = [ini EXCEPT ![r] = run]
           ELSE AfterScrapeLoop(r, run)
  /\ UNCHANGED <<websiteUrl, isInitialized, documents, qry>>
  /\ UNCHANGED <<chunkVars, sideVars>>

\* a plausible slip: the old collection is dropped before the embeddings
\* are known to be there
EmbeddingsFailAfterClear(r) ==
  /\ ini[r].pc = "embedding"
  /\ InitFail(r, ini[r], "embed")
  /\ documents' = clearCollection(documents)
  /\ UNCHANGED <<websiteUrl, isInitialized, qry>>
  /\ UNCHANGED <<chunkVars, sideVars>>

\* await generateEmbeddings(texts) rejects
EmbeddingsFail(r) ==
  /\ ini[r].pc = "embedding"
  /\ InitFail(r, ini[r], "embed")
  /\ UNCHANGED <<websiteUrl, isInitialized, documents, qry>>
  /\ UNCHANGED <<chunkVars, sideVars>>

\* await generateEmbeddings(texts) resolves: the documents are built and
\* clearCollection() is called
EmbeddingsResolve(r, embeddings) ==
  /\ ini[r].pc = "embedding"
  /\ LET docs == [i \in 1..Len(ini[r].chunks) |->
                    MakeDocument(r, ini[r].chunks[i], embeddings[i], ini[r].urls)]
     IN  ini' = [ini EXCEPT ![r].pc = "clearing", ![r].newDocs = docs,
                            ![r].chunks = <<>>]
  /\ documents' = clearCollection(documents)
  /\ UNCHANGED <<websiteUrl, isInitialized, qry>>
  /\ UNCHANGED <<chunkVars, sideVars>>

\* await clearCollection() resumes: addDocuments(documents) is called
ClearResumes(r) ==
  /\ ini[r].pc = "clearing"
  /\ documents' = addDocuments(documents, ini[r].newDocs)
  /\ ini' = [ini EXCEPT ![r].pc = "adding"]
  /\ UNCHANGED <<websiteUrl, isInitialized, qry>>
  /\ UNCHANGED <<chunkVars, sideVars>>

\* await addDocuments() resumes: this.isInitialized = true, 200
AddResumes(r) ==
  /\ ini[r].pc = "adding"
  /\ isInitialized' = TRUE
  /\ ini' = [ini EXCEPT ![r] = Returned(ini[r], "done", 200, "none")]
  /\ UNCHANGED <<websiteUrl, documents, qry>>
  /\ UNCHANGED <<chunkVars, sideVars>>

\* query.trim() of a text of blanks
IsBlank(t) == \A i \in 1..Len(t) : t[i] \in Whitespace

\* a plausible slip: only the url is looked at
NotReadyUrlOnly == websiteUrl \in {Null, Undefined}

\* the guard of RagService.query: !this.isInitialized || !this.websiteUrl
NotReady == ~isInitialized \/ websiteUrl \in {Null, Undefined}

\* a plausible slip: the catch wraps every error into a 500, as the catch
\* of initializeRag does
QueryCatchWrapsAll(status, isHttpException) == 500

\* the catch of RagService.query: an HttpException is rethrown as it is,
\* any other error leaves as a 500
QueryCatch(status, isHttpException) == IF isHttpException THEN status ELSE 500

QueryReject(q, t, status, error) ==
  qry' = [qry EXCEPT ![q].pc = "failed", ![q].query = t, ![q].status = status,
                     ![q].error = error]

\* POST /rag/query: the validation pipe, RagController.query and
\* RagService.query up to its first await; requests are numbered as they
\* arrive
QueryRequest(q, t) ==
  /\ qry[q].pc = "idle"
  /\ q > 1 => qry[q - 1].pc # "idle"
  /\ IF Len(t) < 1
       THEN QueryReject(q, t, 400, "validation")
       ELSE IF IsBlank(t)
              THEN QueryReject(q, t, 400, "queryRequired")
              ELSE IF NotReady
                     THEN QueryReject(q, t, 400, "notInitialized")
                     ELSE qry' = [qry EXCEPT ![q].pc = "embedding", ![q].query = t,
                                             ![q].embedCalls = @ + 1]
  /\ UNCHANGED <<websiteUrl, isInitialized, documents, ini>>
  /\ UNCHANGED <<chunkVars, sideVars>>

\* await generateEmbedding(query) rejects with its HttpException (500)
QueryEmbeddingFails(q) ==
  /\ qry[q].pc = "embedding"
  /\ qry' = [qry EXCEPT ![q].pc = "failed", ![q].status = QueryCatch(500, TRUE),
                        ![q].error = "embedder"]
  /\ UNCHANGED <<websiteUrl, isInitialized, documents, ini>>
  /\ UNCHANGED <<chunkVars, sideVars>>

\* await generateEmbedding(query) resolves: searchSimilar runs, then either
\* its error (an Error, not an HttpException) reaches the catch of query, or
\* the 404, or the call of the answer generator
QueryEmbeddingResolves(q, queryEmbedding) ==
  /\ qry[q].pc = "embedding"
  /\ LET thrown == IF searchSimilarThrows(documents, queryEmbedding)
                     THEN searchSimilarCatch("Error")
                     ELSE "none"
         similarDocs == IF searchSimilarThrows(documents, queryEmbedding)
                          THEN <<>>
                          ELSE searchSimilar(documents, queryEmbedding, 5)
         seen == [qry[q] EXCEPT
                    !.searchCalls = @ + 1,
                    !.queryEmbedding = queryEmbedding,
                    !.results = [i \in 1..Len(similarDocs) |-> similarDocs[i].id]]
     IN  IF thrown # "none"
           THEN qry' = [qry EXCEPT ![q] = [seen EXCEPT !.pc = "failed",
                                                        !.status = QueryCatch(0, FALSE),
                                                        !.error = "search"]]
           ELSE IF Len(similarDocs) = 0
                  THEN qry' = [qry EXCEPT ![q] = [seen EXCEPT !.pc = "failed",
                                                               !.status = QueryCatch(404, TRUE),
                                                               !.error = "notFound"]]
                  ELSE qry' = [qry EXCEPT ![q] = [seen EXCEPT !.pc = "generating",
                                                               !.llmCalls = @ + 1]]
  /\ documents' = DocumentsAfterSearch(documents, queryEmbedding)
  /\ UNCHANGED <<websiteUrl, isInitialized, ini>>
  /\ UNCHANGED <<chunkVars, sideVars>>

\* await chat.completions.create rejects with an error that is not an
\* HttpException: wrapped into a 500
QueryAnswerFails(q) ==
  /\ qry[q].pc = "generating"
  /\ qry' = [qry EXCEPT ![q].pc = "failed", ![q].status = QueryCatch(0, FALSE),
                        ![q].error = "generator"]
  /\ UNCHANGED <<websiteUrl, isInitialized, documents, ini>>
  /\ UNCHANGED <<chunkVars, sideVars>>

\* await chat.completions.create resolves: content || 'No answer generated'
QueryAnswerResolves(q, content) ==
  /\ qry[q].pc = "generating"
  /\ qry' = [qry EXCEPT ![q].pc = "done", ![q].status = 200,
                        ![q].answer = IF Len(content) = 0
                                        THEN <<"No answer generated">> ELSE content]
  /\ UNCHANGED <<websiteUrl, isInitialized, documents, ini>>
  /\ UNCHANGED <<chunkVars, sideVars>>

Init ==
  /\ RagInit
  /\ SideInit
  /\ text = <<>>
  /\ startChar = 0
  /\ index = 0
  /\ chunks = <<>>
  /\ cpc = "done"

Next ==
  \/ \E r \in InitRuns, dto \in InitializeDtos : InitializeRequest(r, dto)
  \/ \E r \in InitRuns, ok \in BOOLEAN : ScrapeSettles(r, ok)
  \/ \E r \in InitRuns : EmbeddingsFail(r)
  \/ \E r \in InitRuns : \E e \in EmbedderAnswers(Len(ini[r].chunks)) :
       EmbeddingsResolve(r, e)
  \/ \E r \in InitRuns : ClearResumes(r)
  \/ \E r \in InitRuns : AddResumes(r)
  \/ \E q \in QueryRuns, t \in QueryTexts : QueryRequest(q, t)
  \/ \E q \in QueryRuns : QueryEmbeddingFails(q)
  \/ \E q \in QueryRuns, e \in QueryVectors : QueryEmbeddingResolves(q, e)
  \/ \E q \in QueryRuns : QueryAnswerFails(q)
  \/ \E q \in QueryRuns, c \in {<<>>, <<"answer">>} : QueryAnswerResolves(q, c)

Spec == Init /\ [][Next]_vars

----------------------------------------------------------------------------
(* Properties of the orchestrator *)

Range(f) == {f[i] : i \in DOMAIN f}

\* the step is the request of Query q
QueryArrives(q) == qry[q].pc = "idle" /\ qry'[q].pc # "idle"

\* the step is the index search of Query q
QuerySearches(q) == qry'[q].searchCalls = qry[q].searchCalls + 1

\* C1: a Query issued before any Initialize run has succeeded is rejected
\* with a 400, the state error when its question is not blank, and makes no
\* embedder call, no index search and no answer-generator call.
QueryBeforeReadyRejected ==
  [][\A q \in QueryRuns :
       (QueryArrives(q) /\ ~isInitialized) =>
         /\ qry'[q].pc = "failed"
         /\ qry'[q].status = 400
         /\ ~IsBlank(qry'[q].query) => qry'[q].error = "notInitialized"
         /\ qry'[q].embedCalls = 0
         /\ qry'[q].searchCalls = 0
         /\ qry'[q].llmCalls = 0]_vars

\* C1 witness: a Query was rejected with the state error while an Initialize
\* run that has set the primary URL is still on its way
QueryBeforeReadyWitness ==
  \E q \in QueryRuns, r \in InitRuns :
    /\ qry[q].error = "notInitialized"
    /\ ini[r].pc \in {"embedding", "clearing", "adding"}
    /\ websiteUrl \in Urls

\* docs is all of what one Initialize run built, and nothing else
CompleteCollection(docs) ==
  \E r \in InitRuns :
    /\ Len(ini[r].scraped) > 0
    /\ Len(docs) = Len(chunkText(combinedContent(ini[r].scraped)))
    /\ \A i \in 1..Len(docs) : docs[i].id = <<r, i - 1>>

\* C2: every index search of a Query sees a complete collection, the one
\* before or the one after a replace, never the emptied or a partial one.
SearchSeesCompleteCollection ==
  [][\A q \in QueryRuns : QuerySearches(q) => CompleteCollection(documents)]_vars

\* the step belongs to Initialize run r and comes before its replace step
BeforeReplaceStep(r) ==
  /\ ini'[r] # ini[r]
  /\ ini'[r].pc \in {"scraping", "embedding", "failed"}

\* C3: an Initialize run that fails before the replace step leaves the
\* document collection and the ready flag as they were: none of its steps
\* up to and including the failure changes them.
FailedInitLeavesIndex ==
  [][\A r \in InitRuns :
       BeforeReplaceStep(r) =>
         /\ documents' = documents
         /\ isInitialized' = isInitialized]_vars

\* C3 witness: an Initialize run failed at the embedder while an index
\* installed earlier is in place
FailedInitLeavesIndexWitness ==
  \E r \in InitRuns :
    /\ ini[r].pc = "failed"
    /\ ini[r].stage = "embed"
    /\ isInitialized
    /\ documents # <<>>

\* C4: once an Initialize run has succeeded, a later Initialize run that
\* fails leaves the session Ready: no step of a run up to and including its
\* failure takes a session that passes the guard of query to one that does
\* not, so no later Query with a non-empty question is rejected as not
\* initialized.
ReadySurvivesFailedInit ==
  [][\A r \in InitRuns :
       (BeforeReplaceStep(r) /\ ~NotReady) => ~NotReady']_vars

\* the marker urls of a text
UrlsNamed(t) == {t[p + 1] : p \in MarkerUrls(t)}

\* C5: a run in which a seed was scraped does not fail for the seeds that
\* were not; its chunks and documents are cut from the content of the
\* scraped seeds only, they are installed, and the run ends with the
\* session's ready flag set.
PartialCrawlInitializes ==
  [][\A r \in InitRuns :
       /\ (ini[r].pc = "scraping" /\ ini'[r].pc = "failed") => ini'[r].scraped = <<>>
       /\ (ini[r].pc = "scraping" /\ ini'[r].pc = "embedding") =>
            /\ ini'[r].chunks # <<>>
            /\ \A i \in 1..Len(ini'[r].chunks) :
                 LET c == ini'[r].chunks[i]
                 IN  /\ c.text = Slice(combinedContent(ini'[r].scraped),
                                       c.startChar, c.endChar)
                     /\ UrlsNamed(c.text) \subseteq Range(ini'[r].scraped)
       /\ (ini[r].pc = "embedding" /\ ini'[r].pc = "clearing") =>
            /\ Len(ini'[r].newDocs) = Len(ini[r].chunks)
            /\ \A i \in 1..Len(ini'[r].newDocs) :
                 LET d == ini'[r].newDocs[i]
                 IN  /\ d.metadata.index = ini[r].chunks[i].index
                     /\ d.metadata.startChar = ini[r].chunks[i].startChar
                     /\ d.metadata.endChar = ini[r].chunks[i].endChar
       /\ (ini[r].pc = "clearing" /\ ini'[r].pc = "adding") =>
            SubSeq(documents', Len(documents') - Len(ini[r].newDocs) + 1,
                   Len(documents')) = ini[r].newDocs
       /\ (ini[r].pc = "adding" /\ ini'[r].pc # "adding") =>
            /\ ini'[r].pc = "done"
            /\ ini'[r].status = 200
            /\ isInitialized']_vars

\* C5 witness: a run over two seeds of which exactly one was scraped has
\* ended well and its documents are in the index
PartialCrawlInitializesWitness ==
  \E r \in InitRuns :
    /\ ini[r].pc = "done"
    /\ Len(ini[r].scraped) = 1
    /\ isInitialized
    /\ documents # <<>>
    /\ \A i \in 1..Len(documents) :
         /\ documents[i].id[1] = r
         /\ Len(documents[i].metadata.baseUrls) = 2

\* C20: once two Initialize runs have both finished successfully, whether
\* or not they overlapped, the index holds exactly the documents of one of
\* them, never a union or a mixture.
OverlappingInitsKeepOneRun ==
  (\A r \in InitRuns : ini[r].pc = "done") => CompleteCollection(documents)

\* C21: an Initialize run whose last seed has been tried and that ends
\* because nothing was scraped from any seed, or because the chunker gave no
\* chunks, is answered with a 4xx status; a run that ends on an embedder
\* failure is answered with a 5xx status.
NoContentIsClientError ==
  [][\A r \in InitRuns :
       /\ (ini[r].pc = "scraping" /\ ini'[r].pc = "failed")
            => ini'[r].status \in 400..499
       /\ (ini[r].pc = "embedding" /\ ini'[r].pc = "failed")
            => ini'[r].status \in 500..599]_vars

\* C22: a Query run that fails before its first call does so with a 4xx
\* status, and does so whenever the question is blank or the session is not
\* ready; a run whose index search finds no document fails with 404; a run
\* that fails on the embedder or on the answer generator fails with a 5xx
\* status.
QueryStatusByCause ==
  [][\A q \in QueryRuns :
       LET before == qry[q]
           after == qry'[q]
           searched == after.searchCalls > before.searchCalls
       IN  /\ (before.pc = "idle" /\ after.pc # "idle")
                => ((IsBlank(after.query) \/ NotReady)
                      <=> (after.pc = "failed" /\ after.status \in 400..499))
           /\ (before.pc = "embedding" /\ searched)
                => (Len(documents) = 0 <=> (after.pc = "failed" /\ after.status = 404))
           /\ (before.pc = "embedding" /\ ~searched /\ after.pc = "failed")
                => after.status \in 500..599
           /\ (before.pc = "generating" /\ after.pc = "failed")
                => after.status \in 500..599]_vars

\* a Query run of a ready session searched the index, found no document
\* and was answered with 404
QueryStatusByCauseWitness ==
  \E q \in QueryRuns :
    /\ qry[q].pc = "failed"
    /\ qry[q].searchCalls = 1
    /\ qry[q].status = 404
    /\ isInitialized

MaxOf(S) == CHOOSE x \in S : \A y \in S : x >= y

\* the places of the source markers in a combined content
MarkerPlaces(content) ==
  {p \in 1..Len(content) : content[p] \in {"=== Page: ", "=== Website: "}}

\* the URL whose block holds character x (1-based) of a combined content:
\* the URL of the last marker up to x, or of the first marker before which x
\* lies
OriginAt(content, x) ==
  LET upTo == {p \in MarkerPlaces(content) : p <= x}
  IN  IF upTo = {}
        THEN content[MinOf(MarkerPlaces(content)) + 1]
        ELSE content[MaxOf(upTo) + 1]

\* C23: a stored document whose chunk lies within the block of one URL has
\* that URL as metadata.source, whether or not the chunk holds a marker.
SourceIsOriginatingUrl ==
  \A i \in 1..Len(documents) :
    LET d == documents[i]
        content == combinedContent(ini[d.id[1]].scraped)
        span == (d.metadata.startChar + 1)..d.metadata.endChar
    IN  \A u \in Urls :
          (\A x \in span : OriginAt(content, x) = u) => d.metadata.source = u

\* C25: the primary URL is recorded only when an Initialize run succeeds:
\* when a run fails after its seeds were tried, and no run has succeeded or
\* is still under way, the primary URL is as it was at the start, unset.
FailedInitKeepsPrimaryUrl ==
  [][((\E r \in InitRuns : ini[r].pc \in {"scraping", "embedding"} /\ ini'[r].pc = "failed")
        /\ \A r \in InitRuns : ini'[r].pc \in {"idle", "failed"})
       => websiteUrl' = Null]_vars

\* C26: a request that passes validation makes initializeRag run with at
\* least one seed, and a request handled with no seeds changes neither the
\* primary URL, nor the ready flag, nor the index.
ValidRequestHasSeeds ==
  [][\A r \in InitRuns :
       (ini[r].pc = "idle" /\ ini'[r].pc # "idle")
         => /\ ini'[r].stage = "validation" \/ Len(ini'[r].urls) > 0
            /\ Len(ini'[r].urls) = 0
                 => /\ websiteUrl' = websiteUrl
                    /\ isInitialized' = isInitialized
                    /\ documents' = documents]_vars

\* C31: when the query vector's length differs from the embedding length of
\* a stored document, the search of a Query run gives no ranking, the run
\* fails with a 5xx status, and the index is left as it was.
MismatchFailsQuery ==
  [][\A q \in QueryRuns :
       (/\ qry[q].pc = "embedding"
        /\ qry'[q].searchCalls > qry[q].searchCalls
        /\ searchSimilarThrows(documents, qry'[q].queryEmbedding))
         => /\ qry'[q].pc = "failed"
            /\ qry'[q].status \in 500..599
            /\ qry'[q].results = <<>>
            /\ documents' = documents]_vars

\* a Query run on a Ready session with documents failed in the search
MismatchFailsQueryWitness ==
  \E q \in QueryRuns :
    /\ qry[q].pc = "failed"
    /\ qry[q].error = "search"
    /\ qry[q].searchCalls = 1
    /\ isInitialized
    /\ searchSimilarThrows(documents, qry[q].queryEmbedding)

\* C32: a Query run only reads the session: no step of a Query run, whether
\* it ends the run well or badly, changes the document collection or its
\* order, the ready flag or the primary URL.
QueryOnlyReads ==
  [][(\E q \in QueryRuns : qry'[q] # qry[q])
       => /\ documents' = documents
          /\ isInitialized' = isInitialized
          /\ websiteUrl' = websiteUrl]_vars

\* a Query run has searched a collection whose documents do not all have
\* the same similarity to the query, and the run has ended
QueryOnlyReadsWitness ==
  \E q \in QueryRuns :
    /\ qry[q].pc \in {"done", "failed"}
    /\ qry[q].searchCalls = 1
    /\ \E i, j \in 1..Len(documents) :
         /\ Len(documents[i].embedding) = Len(qry[q].queryEmbedding)
         /\ Len(documents[j].embedding) = Len(qry[q].queryEmbedding)
         /\ SimGreater(cosineSimilarity(qry[q].queryEmbedding, documents[j].embedding),
                       cosineSimilarity(qry[q].queryEmbedding, documents[i].embedding))
         /\ i < j

\* no Initialize run is between its request and its answer
NoInitializeInProgress == \A r \in InitRuns : ini[r].pc \in {"idle", "done", "failed"}

\* C35: whenever no Initialize run is in progress, a session whose ready
\* flag is set has at least one document, so a Query whose search runs in
\* such a state, with a query vector of the stored length, does not end in
\* the 404 and goes on to the answer generator.
ReadyIndexNotEmpty ==
  [][/\ (NoInitializeInProgress' /\ isInitialized') => Len(documents') >= 1
     /\ \A q \in QueryRuns :
          (/\ qry[q].pc = "embedding"
           /\ qry'[q].searchCalls > qry[q].searchCalls
           /\ NoInitializeInProgress
           /\ isInitialized
           /\ ~searchSimilarThrows(documents, qry'[q].queryEmbedding))
            => /\ qry'[q].status # 404
               /\ qry'[q].pc = "generating"
               /\ Len(qry'[q].results) >= 1]_vars

\* a Query was answered from the index after one Initialize run succeeded
\* and another failed, with no run in progress
ReadyIndexNotEmptyWitness ==
  /\ NoInitializeInProgress
  /\ isInitialized
  /\ \E r \in InitRuns : ini[r].pc = "failed" /\ ini[r].stage # "validation"
  /\ \E r \in InitRuns : ini[r].pc = "done"
  /\ \E q \in QueryRuns : qry[q].pc = "done" /\ Len(qry[q].results) >= 1

----------------------------------------------------------------------------
(* chunkText as a process: one action per loop iteration *)

ChunkInit ==
  /\ text \in ChunkerInputs
  /\ startChar = 0
  /\ index = 0
  /\ chunks = <<>>
  /\ cpc = "loop"
  /\ RagInit
  /\ SideInit

\* one iteration of while (startChar < text.length)
ChunkIterate ==
  /\ cpc = "loop"
  /\ startChar < Len(text)
  /\ LET c == MakeChunk(text, startChar, index)
     IN  /\ chunks' = Append(chunks, c)
         /\ startChar' = NextStart(c.endChar, startChar)
  /\ index' = index + 1
  /\ UNCHANGED <<text, cpc>>
  /\ UNCHANGED <<ragVars, sideVars>>

\* loop exit and return chunks
ChunkReturn ==
  /\ cpc = "loop"
  /\ ~(startChar < Len(text))
  /\ cpc' = "done"
  /\ UNCHANGED <<text, startChar, index, chunks>>
  /\ UNCHANGED <<ragVars, sideVars>>

ChunkNext == ChunkIterate \/ ChunkReturn

ChunkSpec == ChunkInit /\ [][ChunkNext]_vars

----------------------------------------------------------------------------
(* Properties of the chunker *)

\* the tentative end and the search window start of chunk c
WindowStart(c) ==
  Max(c.startChar, TentativeEnd(text, c.startChar) - boundaryWindow)

\* chunk c was cut short at a boundary before its tentative end
Snapped(c) == c.endChar < TentativeEnd(text, c.startChar)

\* C6: the chunk spans cover the text end-to-end with no gaps: the first
\* chunk starts at 0, the last chunk ends at len(text) and every next chunk
\* starts at or before the end of the previous one.
ChunkSpansCoverText ==
  (cpc = "done" /\ Len(text) > 0) =>
    /\ Len(chunks) > 0
    /\ chunks[1].startChar = 0
    /\ chunks[Len(chunks)].endChar = Len(text)
    /\ \A i \in 1..(Len(chunks) - 1) : chunks[i + 1].startChar <= chunks[i].endChar

\* C7: every chunk satisfies 0 <= start < end <= len(text), its text is
\* text[start, end), the sequence indices are 0..n-1 in emission order and
\* the chunk starts are strictly increasing.
ChunkWellFormed ==
  \A i \in 1..Len(chunks) :
    LET c == chunks[i]
    IN  /\ 0 <= c.startChar
        /\ c.startChar < c.endChar
        /\ c.endChar <= Len(text)
        /\ c.text = [k \in 1..(c.endChar - c.startChar) |-> text[c.startChar + k]]
        /\ c.index = i - 1
        /\ i > 1 => chunks[i - 1].startChar < c.startChar

\* C7 witness: a finished run of three or more chunks with a chunk cut at
\* a boundary
ChunkWellFormedWitness ==
  /\ cpc = "done"
  /\ Len(chunks) >= 3
  /\ \E i \in 1..Len(chunks) : Snapped(chunks[i])

\* C8: every loop iteration strictly increases the start offset, so the
\* distance to the end of the text shrinks and the loop terminates.
ChunkLoopProgress ==
  [][Len(chunks') = Len(chunks) + 1 =>
       /\ startChar' > startChar
       /\ Len(text) - startChar' < Len(text) - startChar
       /\ Len(chunks') <= Len(text)]_vars

\* C8 witness: a finished run with one chunk that found no boundary and one
\* chunk whose boundary is the very first match position of its window
ChunkLoopProgressWitness ==
  /\ cpc = "done"
  /\ \E i \in 1..Len(chunks) :
       /\ ~Snapped(chunks[i])
       /\ SentenceMatches(text, WindowStart(chunks[i]), chunks[i].endChar) = {}
  /\ \E i \in 1..Len(chunks) :
       /\ WindowStart(chunks[i]) \in
            SentenceMatches(text, WindowStart(chunks[i]),
                            TentativeEnd(text, chunks[i].startChar))
       /\ chunks[i].startChar > 0

\* C9: empty text gives zero chunks; a non-empty text shorter than the chunk
\* size gives exactly one chunk, from 0 to len(text).
ShortTextOneWholeChunk ==
  cpc = "done" =>
    /\ Len(text) = 0 => chunks = <<>>
    /\ (0 < Len(text) /\ Len(text) < chunkSize) =>
         /\ Len(chunks) = 1
         /\ chunks[1].startChar = 0
         /\ chunks[1].endChar = Len(text)

\* C10: consecutive chunks overlap, by at most the configured overlap.
ConsecutiveChunksOverlap ==
  \A i \in 1..(Len(chunks) - 1) :
    /\ chunks[i + 1].startChar < chunks[i].endChar
    /\ chunks[i + 1].startChar >= chunks[i].endChar - chunkOverlap

\* C24: every chunk ends just after the last match of [.!?] followed by
\* whitespace in the final 200 characters of its window; if there is no
\* such match, just after a paragraph break of that window; if there is
\* neither, at the tentative end.
SnapsToLastBoundary ==
  \A i \in 1..Len(chunks) :
    LET c == chunks[i]
        end == TentativeEnd(text, c.startChar)
        sentences == SentenceMatches(text, WindowStart(c), end)
        paragraphs == ParagraphMatches(text, WindowStart(c), end)
    IN  IF sentences # {}
          THEN c.endChar = WhitespaceRunEnd(text, MaxOf(sentences) + 2, end)
          ELSE IF paragraphs # {}
                 THEN \E p \in paragraphs : c.endChar = p + 2
                 ELSE c.endChar = end

----------------------------------------------------------------------------
(* VectorDbService as a process: callers add, clear and search *)

\* the most documents the collection holds in one behaviour
MaxDocs == 3

\* embeddings the callers bring: two of one direction, a zero vector, an
\* opposite one, and one of another length
VecPool == {<<1, 0>>, <<2, 0>>, <<0, 1>>, <<1, 1>>, <<-1, 0>>, <<0, 0>>, <<1>>}

\* the topK arguments
TopKs == {1, 2, 3}

\* the arrays handed to addDocuments
VecBatches == {<<>>} \cup [1..1 -> VecPool] \cup [1..2 -> VecPool]

\* the documents of a batch; a document's id is its place in the collection
VecDocuments(docs, batch) ==
  [i \in 1..Len(batch) |-> [id |-> Len(docs) + i, embedding |-> batch[i]]]

VecInit ==
  /\ RagInit
  /\ SideInit
  /\ text = <<>>
  /\ startChar = 0
  /\ index = 0
  /\ chunks = <<>>
  /\ cpc = "done"

\* what the vector index leaves alone
VecFrame ==
  UNCHANGED <<chunkVars, websiteUrl, isInitialized, ini, qry, emb, crawl, pair>>

\* await addDocuments(batch)
VecAdd(batch) ==
  /\ Len(documents) + Len(batch) <= MaxDocs
  /\ documents' = addDocuments(documents, VecDocuments(documents, batch))
  /\ found' = NoSearch
  /\ VecFrame

\* await clearCollection()
VecClear ==
  /\ documents' = clearCollection(documents)
  /\ found' = NoSearch
  /\ VecFrame

\* await searchSimilar(queryEmbedding, topK)
VecSearch(queryEmbedding, topK) ==
  /\ found' = IF searchSimilarThrows(documents, queryEmbedding)
                THEN [status |-> "error", query |-> queryEmbedding, topK |-> topK,
                      results |-> <<>>]
                ELSE [status |-> "ok", query |-> queryEmbedding, topK |-> topK,
                      results |-> searchSimilar(documents, queryEmbedding, topK)]
  /\ documents' = DocumentsAfterSearch(documents, queryEmbedding)
  /\ VecFrame

VecNext ==
  \/ \E batch \in VecBatches : VecAdd(batch)
  \/ VecClear
  \/ \E q \in VecPool, k \in TopKs : VecSearch(q, k)

VecSpec == VecInit /\ [][VecNext]_vars

----------------------------------------------------------------------------
(* Properties of the vector index *)

\* the similarity of a stored document to the query of the last search
FoundSim(d) == cosineSimilarity(found.query, d.embedding)

\* similarity x is strictly higher than similarity y
Higher(x, y) == x.num * y.den > y.num * x.den

\* document d is among the results of the last search
InResults(d) == \E i \in 1..Len(found.results) : found.results[i] = d

\* C11: a search that returns gives exactly min(k, count) documents of the
\* collection, each once, in non-increasing order of cosine similarity to
\* the query, and no document left out is strictly more similar than a
\* returned one.
SearchRanksTopK ==
  found.status = "ok" =>
    LET res == found.results
    IN  /\ Len(res) = Min(found.topK, Len(documents))
        /\ \A i \in 1..Len(res) : \E p \in 1..Len(documents) : documents[p] = res[i]
        /\ \A i, j \in 1..Len(res) : i # j => res[i] # res[j]
        /\ \A i, j \in 1..Len(res) :
             i < j => ~Higher(FoundSim(res[j]), FoundSim(res[i]))
        /\ \A p \in 1..Len(documents) :
             ~InResults(documents[p]) =>
               \A i \in 1..Len(res) : ~Higher(FoundSim(documents[p]), FoundSim(res[i]))

\* a search over three documents that returns two in strictly decreasing
\* similarity, not in insertion order, and leaves the first document out
SearchRanksTopKWitness ==
  /\ found.status = "ok"
  /\ Len(documents) = 3
  /\ found.topK = 2
  /\ Len(found.results) = 2
  /\ Higher(FoundSim(found.results[1]), FoundSim(found.results[2]))
  /\ found.results[1].id = 3
  /\ ~InResults(documents[1])

\* C12: documents of equal similarity to the query come back in insertion
\* order, and when only some of them fit within k the ones kept were
\* inserted before the ones left out.
SearchTiesKeepInsertionOrder ==
  found.status = "ok" =>
    LET res == found.results
        Tie(a, b) == ~Higher(FoundSim(a), FoundSim(b)) /\ ~Higher(FoundSim(b), FoundSim(a))
    IN  /\ \A i, j \in 1..Len(res) :
             (i < j /\ Tie(res[i], res[j])) => res[i].id < res[j].id
        /\ \A p \in 1..Len(documents), i \in 1..Len(res) :
             (~InResults(documents[p]) /\ Tie(documents[p], res[i]))
               => res[i].id < documents[p].id

\* three documents of equal similarity to the query, the first two with
\* different embeddings, and k = 2: the third is the one left out
SearchTiesKeepInsertionOrderWitness ==
  /\ found.status = "ok"
  /\ Len(documents) = 3
  /\ found.topK = 2
  /\ Len(found.results) = 2
  /\ found.results[1].embedding # found.results[2].embedding
  /\ ~Higher(FoundSim(found.results[1]), FoundSim(found.results[2]))
  /\ ~Higher(FoundSim(found.results[2]), FoundSim(documents[3]))
  /\ ~Higher(FoundSim(documents[3]), FoundSim(found.results[2]))
  /\ ~InResults(documents[3])

\* C13: all stored documents have embeddings of one length.
OneEmbeddingLength ==
  \A i, j \in 1..Len(documents) :
    Len(documents[i].embedding) = Len(documents[j].embedding)

----------------------------------------------------------------------------
(* EmbeddingService.generateEmbeddings as a process: the calls of a batch
   are in flight together and settle in any order *)

\* const batchSize = 10
batchSize == 10

\* the longest texts array of one behaviour: a full batch and a second one
MaxTexts == 11

\* texts arrays: text t is the t-th chunk text, all different
TextArrays == {[t \in 1..n |-> t] : n \in 0..MaxTexts}

\* the vector the embedding model gives for a text
EmbedderAnswer(t) == <<t>>

\* an element of Promise.all's result array that is not settled yet
Pending == <<>>

\* a plausible slip: results collected in the order the calls settle
PromiseAllSettleInArrivalOrder(results, p, v) ==
  LET free == {q \in 1..Len(results) : results[q] = Pending}
  IN  [results EXCEPT ![MinOf(free)] = v]

\* Promise.all: the value of the p-th promise becomes the p-th element
PromiseAllSettle(results, p, v) == [results EXCEPT ![p] = v]

\* documents = chunks.map((chunk, index) => ({ content: chunk.text,
\* embedding: embeddings[index] })) of initializeRag
PairDocuments(chunkTexts, embeddings) ==
  [k \in 1..Len(chunkTexts) |-> [content |-> chunkTexts[k], embedding |-> embeddings[k]]]

EmbedInit ==
  /\ RagInit
  /\ SideInit
  /\ text = <<>>
  /\ startChar = 0
  /\ index = 0
  /\ chunks = <<>>
  /\ cpc = "done"

\* what generateEmbeddings leaves alone
EmbedFrame == UNCHANGED <<chunkVars, ragVars, found, crawl, pair>>

\* a plausible slip: the calls are started for all the texts left
EmbedLoopHeadWholeArray(e, i, embeddings) ==
  IF i < Len(e.texts)
    THEN LET batch == SubSeq(e.texts, i + 1, Len(e.texts))
         IN  [e EXCEPT !.pc = "batch", !.i = i, !.embeddings = embeddings,
                       !.batch = batch,
                       !.batchEmbeddings = [p \in 1..Len(batch) |-> Pending]]
    ELSE [e EXCEPT !.pc = "returned", !.i = i, !.embeddings = embeddings,
                   !.batch = <<>>, !.batchEmbeddings = <<>>]

\* the loop head at index i with the embeddings so far: either return, or
\* slice the next batch and start all its calls
EmbedLoopHead(e, i, embeddings) ==
  IF i < Len(e.texts)
    THEN LET batch == SubSeq(e.texts, i + 1, Min(i + batchSize, Len(e.texts)))
         IN  [e EXCEPT !.pc = "batch", !.i = i, !.embeddings = embeddings,
                       !.batch = batch,
                       !.batchEmbeddings = [p \in 1..Len(batch) |-> Pending]]
    ELSE [e EXCEPT !.pc = "returned", !.i = i, !.embeddings = embeddings,
                   !.batch = <<>>, !.batchEmbeddings = <<>>]

\* generateEmbeddings(texts) is called
EmbedCall(texts) ==
  /\ emb.pc = "idle"
  /\ emb' = EmbedLoopHead([emb EXCEPT !.texts = texts], 0, <<>>)
  /\ EmbedFrame

\* the call for the p-th text of the batch resolves
EmbedSettles(p) ==
  /\ emb.pc = "batch"
  /\ p \in 1..Len(emb.batch)
  /\ emb.batchEmbeddings[p] = Pending
  /\ emb' = [emb EXCEPT
               !.batchEmbeddings =
                  PromiseAllSettle(emb.batchEmbeddings, p, EmbedderAnswer(emb.batch[p])),
               !.outOfOrder = emb.outOfOrder
                                \/ \E q \in 1..(p - 1) : emb.batchEmbeddings[q] = Pending]
  /\ EmbedFrame

\* the call for the p-th text of the batch rejects: Promise.all rejects and
\* generateEmbeddings throws; the other calls of the batch that have not
\* settled stay in flight, nobody waits for them
EmbedRejects(p) ==
  /\ emb.pc = "batch"
  /\ p \in 1..Len(emb.batch)
  /\ emb.batchEmbeddings[p] = Pending
  /\ emb' = [emb EXCEPT !.pc = "failed", !.batch = <<>>, !.batchEmbeddings = <<>>,
                        !.embeddings = <<>>,
                        !.orphans = Cardinality({q \in 1..Len(emb.batch) :
                                                   emb.batchEmbeddings[q] = Pending}) - 1]
  /\ EmbedFrame

\* after generateEmbeddings threw, a call left in flight resolves or
\* rejects; its result is dropped
EmbedOrphanSettles ==
  /\ emb.pc = "failed"
  /\ emb.orphans > 0
  /\ emb' = [emb EXCEPT !.orphans = @ - 1]
  /\ EmbedFrame

\* every call of the batch has resolved: embeddings.push(...batchEmbeddings),
\* then the 100 ms delay when texts remain, else the loop ends
EmbedBatchResolves ==
  /\ emb.pc = "batch"
  /\ \A p \in 1..Len(emb.batch) : emb.batchEmbeddings[p] # Pending
  /\ LET embeddings == emb.embeddings \o emb.batchEmbeddings
     IN  emb' = IF emb.i + batchSize < Len(emb.texts)
                  THEN [emb EXCEPT !.pc = "delay", !.embeddings = embeddings,
                                   !.batch = <<>>, !.batchEmbeddings = <<>>]
                  ELSE EmbedLoopHead(emb, emb.i + batchSize, embeddings)
  /\ EmbedFrame

\* the 100 ms timer fires: i += batchSize and the next batch starts
EmbedDelayFires ==
  /\ emb.pc = "delay"
  /\ emb' = EmbedLoopHead(emb, emb.i + batchSize, emb.embeddings)
  /\ EmbedFrame

EmbedNext ==
  \/ \E texts \in TextArrays : EmbedCall(texts)
  \/ \E p \in 1..batchSize : EmbedSettles(p)
  \/ \E p \in 1..batchSize : EmbedRejects(p)
  \/ EmbedOrphanSettles
  \/ EmbedBatchResolves
  \/ EmbedDelayFires

EmbedSpec == EmbedInit /\ [][EmbedNext]_vars

----------------------------------------------------------------------------
(* Properties of generateEmbeddings *)

\* C19: whatever order the calls of a batch settle in, a generateEmbeddings
\* call that returns gives one embedding per text, the i-th being the
\* embedding of texts[i], so the documents built from it pair each chunk
\* text with its own embedding.
EmbeddingsKeepTextOrder ==
  emb.pc = "returned" =>
    /\ Len(emb.embeddings) = Len(emb.texts)
    /\ \A k \in 1..Len(emb.texts) : emb.embeddings[k] = EmbedderAnswer(emb.texts[k])
    /\ \A k \in 1..Len(emb.texts) :
         LET d == PairDocuments(emb.texts, emb.embeddings)[k]
         IN  d.content = emb.texts[k] /\ d.embedding = EmbedderAnswer(d.content)

\* a call over two batches returned after some call settled before one of
\* a lower position in its batch
EmbeddingsKeepTextOrderWitness ==
  /\ emb.pc = "returned"
  /\ Len(emb.texts) > batchSize
  /\ emb.outOfOrder

----------------------------------------------------------------------------
(* WebScraperService: URLs *)

\* a URL string as new URL() sees it: origin, pathname (a sequence of
\* one-character tokens), search and hash; two URL strings are the same
\* string exactly when the four parts are equal
Url(origin, path) == [origin |-> origin, path |-> path, search |-> "", hash |-> ""]

\* String.prototype.startsWith
StartsWith(s, prefix) ==
  Len(prefix) <= Len(s) /\ SubSeq(s, 1, Len(prefix)) = prefix

\* String.prototype.includes
Includes(s, sub) ==
  \E k \in 0..(Len(s) - Len(sub)) : SubSeq(s, k + 1, k + Len(sub)) = sub

\* a match of /\.(ext)$/
EndsWith(s, suffix) ==
  Len(suffix) <= Len(s) /\ SubSeq(s, Len(s) - Len(suffix) + 1, Len(s)) = suffix

\* path.split('/').filter((p) => p).length: the segments that are not empty
PathDepth(path) ==
  Cardinality({k \in 1..Len(path) : path[k] # "/" /\ (k = 1 \/ path[k - 1] = "/")})

\* const excludedPaths
excludedPaths ==
  {<<"/", "a", "p", "i", "/">>,
   <<"/", "c", "o", "n", "t", "a", "c", "t">>,
   <<"/", "a", "b", "o", "u", "t">>,
   <<"/", "p", "r", "i", "v", "a", "c", "y">>,
   <<"/", "t", "e", "r", "m", "s">>,
   <<"/", "l", "e", "g", "a", "l">>,
   <<"/", "b", "l", "o", "g">>,
   <<"/", "n", "e", "w", "s">>,
   <<"/", "s", "o", "c", "i", "a", "l">>,
   <<"/", "f", "a", "c", "e", "b", "o", "o", "k">>,
   <<"/", "t", "w", "i", "t", "t", "e", "r">>,
   <<"/", "i", "n", "s", "t", "a", "g", "r", "a", "m">>,
   <<"/", "l", "i", "n", "k", "e", "d", "i", "n">>,
   <<"/", "y", "o", "u", "t", "u", "b", "e">>}

\* the alternatives of /\.(pdf|jpg|jpeg|png|gif|svg|zip|doc|docx)$/i, in
\* lower case
excludedExtensions ==
  {<<"p", "d", "f">>,
   <<"j", "p", "g">>,
   <<"j", "p", "e", "g">>,
   <<"p", "n", "g">>,
   <<"g", "i", "f">>,
   <<"s", "v", "g">>,
   <<"z", "i", "p">>,
   <<"d", "o", "c">>,
   <<"d", "o", "c", "x">>}

\* const isExcluded
isExcluded(urlObj) ==
  LET linkPath == urlObj.path
  IN  \/ \E path \in excludedPaths : Includes(linkPath, path)
      \/ \E ext \in excludedExtensions : EndsWith(linkPath, <<".">> \o ext)
      \/ Includes(linkPath, <<"#">>)
      \/ urlObj.search # ""
      \/ Len(linkPath) <= 1

\* a plausible slip: links to every origin pass
SameOriginAlways(urlObj, baseUrlObj) == TRUE

\* urlObj.origin === baseUrlObj.origin, where baseUrlObj is the URL of the
\* page the link is on
SameOrigin(urlObj, baseUrlObj) == urlObj.origin = baseUrlObj.origin

\* the test a link of extractLinks passes to be pushed: same origin, not
\* excluded, from the root or a string-prefix child, and not less deep
LinkPasses(urlObj, baseUrlObj) ==
  LET currentPath == baseUrlObj.path
      linkPath == urlObj.path
      isFromRoot == currentPath = <<"/">> \/ currentPath = <<>>
      isChildPath == StartsWith(linkPath, currentPath) /\ linkPath # currentPath
  IN  /\ SameOrigin(urlObj, baseUrlObj)
      /\ ~isExcluded(urlObj)
      /\ isFromRoot \/ isChildPath
      /\ PathDepth(linkPath) >= PathDepth(currentPath)

\* the elements of seq at the positions in keep, in the order of seq
Pick(seq, keep) ==
  [i \in 1..Cardinality(keep) |->
     seq[CHOOSE k \in keep : Cardinality({j \in keep : j <= k}) = i]]

\* [...new Set(links)]: first occurrences, in order
Unique(links) ==
  Pick(links, {k \in 1..Len(links) : \A j \in 1..(k - 1) : links[j] # links[k]})

\* the links extractLinks returns for the page at url whose anchors are hrefs
extractLinks(url, hrefs) ==
  Unique(SelectSeq(hrefs, LAMBDA h : LinkPasses(h, url)))

----------------------------------------------------------------------------
(* The web the crawler runs on *)

SiteOrigin == "https://s.test"

OtherOrigin == "https://o.test"

BigOrigin == "https://b.test"

\* the leaf pages of the big site: more than the page cap
BigSitePages == 52

Digit == <<"0", "1", "2", "3", "4", "5", "6", "7", "8", "9">>

\* the n-th leaf of the big site, /pNN
BigLeaf(n) == Url(BigOrigin, <<"/", "p", Digit[(n \div 10) + 1], Digit[(n % 10) + 1]>>)

PathRoot == <<"/">>
PathA == <<"/", "a">>
PathAX == <<"/", "a", "/", "x">>
PathAXY == <<"/", "a", "/", "x", "/", "y">>
PathAB == <<"/", "a", "b">>
PathB == <<"/", "b">>

\* a page: the text scrapeSinglePage extracts from it and the anchors of
\* its main content, already resolved against the page's URL
Page(pageText, hrefs) == [text |-> pageText, links |-> hrefs]

\* the pages that exist, by origin and pathname.  The small site has the
\* root, /a (with the string-prefix sibling /ab), /a/x, the empty page
\* /a/x/y and /ab; /b is linked but does not exist.
Web ==
  [key \in {<<SiteOrigin, PathRoot>>, <<SiteOrigin, PathA>>, <<SiteOrigin, PathAX>>,
            <<SiteOrigin, PathAXY>>, <<SiteOrigin, PathAB>>, <<BigOrigin, PathRoot>>}
           \cup {<<BigOrigin, BigLeaf(n).path>> : n \in 1..BigSitePages} |->
     CASE key = <<SiteOrigin, PathRoot>> ->
            Page(<<"t">>,
                 <<Url(SiteOrigin, PathAX), Url(SiteOrigin, PathA),
                   [Url(SiteOrigin, PathA) EXCEPT !.hash = "#s"],
                   Url(OtherOrigin, PathA), Url(SiteOrigin, <<"/", "c", "o", "n", "t", "a", "c", "t">>),
                   Url(SiteOrigin, <<"/", "f", ".", "p", "d", "f">>),
                   [Url(SiteOrigin, PathA) EXCEPT !.search = "?q"],
                   Url(SiteOrigin, PathRoot), Url(SiteOrigin, PathB),
                   Url(SiteOrigin, PathA)>>)
       [] key = <<SiteOrigin, PathA>> ->
            Page(<<"t">>,
                 <<Url(SiteOrigin, PathAX), Url(SiteOrigin, PathAB),
                   Url(SiteOrigin, PathB), Url(SiteOrigin, PathRoot),
                   Url(SiteOrigin, PathA), Url(OtherOrigin, PathAX)>>)
       [] key = <<SiteOrigin, PathAX>> ->
            Page(<<"t">>, <<Url(SiteOrigin, PathAXY), Url(SiteOrigin, PathA)>>)
       [] key = <<SiteOrigin, PathAXY>> -> Page(<<>>, <<>>)
       [] key = <<SiteOrigin, PathAB>> -> Page(<<"t">>, <<Url(SiteOrigin, PathA)>>)
       [] key = <<BigOrigin, PathRoot>> ->
            Page(<<"t">>, [n \in 1..BigSitePages |-> BigLeaf(n)])
       [] OTHER -> Page(<<"t">>, <<Url(BigOrigin, PathRoot)>>)]

\* the pages whose GET, or whose parsing, fails at some times and not at
\* others
Flaky == {<<SiteOrigin, PathAX>>}

\* the ways a GET of url and the parsing of the answer can end
GetOutcomes(url) ==
  IF <<url.origin, url.path>> \notin DOMAIN Web
    THEN {"fail"}
    ELSE IF <<url.origin, url.path>> \in Flaky THEN {"ok", "fail"} ELSE {"ok"}

\* a baseUrl that new URL() rejects: the string "x"
InvalidUrl == [origin |-> "", path |-> <<"x">>, search |-> "", hash |-> ""]

\* the baseUrl arguments of scrapeWebsite
CrawlSeeds ==
  {Url(SiteOrigin, PathRoot), Url(SiteOrigin, PathA), Url(SiteOrigin, PathAX),
   Url(SiteOrigin, PathAXY), Url(SiteOrigin, PathB), Url(BigOrigin, PathRoot),
   InvalidUrl}

----------------------------------------------------------------------------
(* WebScraperService.scrapeWebsite as a process: one crawl session *)

\* private readonly maxPages: number = 50
maxPages == 50

CrawlInit ==
  /\ RagInit
  /\ SideInit
  /\ text = <<>>
  /\ startChar = 0
  /\ index = 0
  /\ chunks = <<>>
  /\ cpc = "done"

\* what scrapeWebsite leaves alone
CrawlFrame == UNCHANGED <<chunkVars, ragVars, found, emb, pair>>

\* a plausible slip: the cap test lets one more page through
LoopContinuesThroughCap(c) ==
  Len(c.urlsToVisit) > 0 /\ Cardinality(c.visitedUrls) <= maxPages

\* while (urlsToVisit.length > 0 && this.visitedUrls.size < this.maxPages)
LoopContinues(c) ==
  Len(c.urlsToVisit) > 0 /\ Cardinality(c.visitedUrls) < maxPages

\* after the loop: join allContent, throw the 400 'No content found on any
\* pages' when it is empty, else return it
AfterLoop(c) ==
  IF Len(c.allContent) = 0
    THEN [c EXCEPT !.pc = "threw", !.status = 400, !.currentUrl = NoUrl]
    ELSE [c EXCEPT !.pc = "returned", !.currentUrl = NoUrl]

\* the loop from its head up to the next await: shift URLs, skip the visited
\* ones (continue), and call scrapeSinglePage on the first that is not
RECURSIVE LoopHead(_)
LoopHead(c) ==
  IF LoopContinues(c)
    THEN LET currentUrl == Head(c.urlsToVisit)
             shifted == [c EXCEPT !.urlsToVisit = Tail(c.urlsToVisit)]
         IN  IF currentUrl \in c.visitedUrls
               THEN LoopHead(shifted)
               ELSE [shifted EXCEPT !.pc = "page", !.currentUrl = currentUrl]
    ELSE AfterLoop(c)

\* a plausible slip: the failure of one page ends the session
AfterPageFailureAborts(c) ==
  [c EXCEPT !.pc = "threw", !.status = 500, !.currentUrl = NoUrl]

\* catch (error) { logger.warn(...) }: the loop goes on
AfterPageFailure(c) == LoopHead(c)

\* a plausible slip: new links go to the front of the frontier
PushLinksToFront(urlsToVisit, visited, links) ==
  LET queued(link) == \E k \in 1..Len(urlsToVisit) : urlsToVisit[k] = link
  IN  Unique(SelectSeq(links, LAMBDA link : link \notin visited /\ ~queued(link)))
        \o urlsToVisit

\* for (const link of links) if (!visited.has(link) &&
\* !urlsToVisit.includes(link)) urlsToVisit.push(link): a link is pushed at
\* its first occurrence when it is neither visited nor queued before the loop
PushLinks(urlsToVisit, visited, links) ==
  LET queued(link) == \E k \in 1..Len(urlsToVisit) : urlsToVisit[k] = link
  IN  urlsToVisit
        \o Unique(SelectSeq(links, LAMBDA link : link \notin visited /\ ~queued(link)))

\* scrapeWebsite(baseUrl) is called: new URL(baseUrl).origin, clear the
\* visited set, start the loop
CrawlStart(baseUrl) ==
  /\ crawl.pc = "idle"
  /\ crawl' =
       IF baseUrl = InvalidUrl
         THEN [crawl EXCEPT !.pc = "threw", !.status = 500, !.seed = baseUrl]
         ELSE LoopHead([crawl EXCEPT !.seed = baseUrl, !.baseUrl = baseUrl.origin,
                                     !.visitedUrls = {}, !.allContent = <<>>,
                                     !.urlsToVisit = <<baseUrl>>])
  /\ CrawlFrame

\* a plausible slip: a URL whose fetch failed is put back in the frontier
PageSettlesRetries(outcome) ==
  /\ crawl.pc = "page"
  /\ outcome \in GetOutcomes(crawl.currentUrl)
  /\ LET url == crawl.currentUrl
         pageContent == IF outcome = "ok" THEN Web[<<url.origin, url.path>>].text ELSE <<>>
         logged == [crawl EXCEPT !.fetches =
                      Append(crawl.fetches,
                             [url |-> url, by |-> "scrapeSinglePage",
                              ok |-> outcome = "ok", content |-> pageContent])]
     IN  crawl' =
           IF outcome = "ok"
             THEN [logged EXCEPT
                     !.pc = "links",
                     !.allContent = IF Len(pageContent) > 0
                                      THEN Append(crawl.allContent,
                                                  [url |-> url, pageContent |-> pageContent])
                                      ELSE crawl.allContent]
             ELSE AfterPageFailure([logged EXCEPT !.urlsToVisit = Append(@, url)])
  /\ CrawlFrame

\* await scrapeSinglePage(currentUrl) settles.  On success the page text is
\* kept when it is not blank and extractLinks is called; a failed GET or a
\* failed parse lands in the catch of the loop body
PageSettles(outcome) ==
  /\ crawl.pc = "page"
  /\ outcome \in GetOutcomes(crawl.currentUrl)
  /\ LET url == crawl.currentUrl
         pageContent == IF outcome = "ok" THEN Web[<<url.origin, url.path>>].text ELSE <<>>
         logged == [crawl EXCEPT !.fetches =
                      Append(crawl.fetches,
                             [url |-> url, by |-> "scrapeSinglePage",
                              ok |-> outcome = "ok", content |-> pageContent])]
     IN  crawl' =
           IF outcome = "ok"
             THEN [logged EXCEPT
                     !.pc = "links",
                     !.allContent = IF Len(pageContent) > 0
                                      THEN Append(crawl.allContent,
                                                  [url |-> url, pageContent |-> pageContent])
                                      ELSE crawl.allContent]
             ELSE AfterPageFailure(logged)
  /\ CrawlFrame

\* a plausible slip: every link found is queued, visited or not
LinksSettleQueuesAll(outcome) ==
  /\ crawl.pc = "links"
  /\ outcome \in GetOutcomes(crawl.currentUrl)
  /\ LET url == crawl.currentUrl
         links == IF outcome = "ok"
                    THEN extractLinks(url, Web[<<url.origin, url.path>>].links)
                    ELSE <<>>
         queue == crawl.urlsToVisit \o links
         pushed == SubSeq(queue, Len(crawl.urlsToVisit) + 1, Len(queue))
     IN  crawl' = [crawl EXCEPT
                     !.pc = "delay",
                     !.urlsToVisit = queue,
                     !.visitedUrls = crawl.visitedUrls \cup {url},
                     !.fetches = Append(crawl.fetches,
                                        [url |-> url, by |-> "extractLinks",
                                         ok |-> outcome = "ok", content |-> <<>>]),
                     !.enqueued = crawl.enqueued
                                    \o [k \in 1..Len(pushed) |->
                                          [link |-> pushed[k], from |-> url]]]
  /\ CrawlFrame

\* await extractLinks(currentUrl) settles: its own GET of the same URL; a
\* failure is caught inside extractLinks and gives no links.  The new links
\* are queued, the URL is added to the visited set, the 500 ms delay starts
LinksSettle(outcome) ==
  /\ crawl.pc = "links"
  /\ outcome \in GetOutcomes(crawl.currentUrl)
  /\ LET url == crawl.currentUrl
         links == IF outcome = "ok"
                    THEN extractLinks(url, Web[<<url.origin, url.path>>].links)
                    ELSE <<>>
         queue == PushLinks(crawl.urlsToVisit, crawl.visitedUrls, links)
         pushed == SubSeq(queue, Len(crawl.urlsToVisit) + 1, Len(queue))
     IN  crawl' = [crawl EXCEPT
                     !.pc = "delay",
                     !.urlsToVisit = queue,
                     !.visitedUrls = crawl.visitedUrls \cup {url},
                     !.fetches = Append(crawl.fetches,
                                        [url |-> url, by |-> "extractLinks",
                                         ok |-> outcome = "ok", content |-> <<>>]),
                     !.enqueued = crawl.enqueued
                                    \o [k \in 1..Len(pushed) |->
                                          [link |-> pushed[k], from |-> url]]]
  /\ CrawlFrame

\* the 500 ms timer fires: back to the loop head
DelayFires ==
  /\ crawl.pc = "delay"
  /\ crawl' = LoopHead(crawl)
  /\ CrawlFrame

CrawlNext ==
  \/ \E baseUrl \in CrawlSeeds : CrawlStart(baseUrl)
  \/ \E outcome \in {"ok", "fail"} : PageSettles(outcome)
  \/ \E outcome \in {"ok", "fail"} : LinksSettle(outcome)
  \/ DelayFires

CrawlSpec == CrawlInit /\ [][CrawlNext]_vars

----------------------------------------------------------------------------
(* Properties of a crawl session *)

\* the page fetches of the session so far, in order
PageFetches == SelectSeq(crawl.fetches, LAMBDA f : f.by = "scrapeSinglePage")

\* path.split('/').filter((p) => p): the segments of a path
RECURSIVE PathSegments(_)
PathSegments(path) ==
  IF Len(path) = 0
    THEN <<>>
    ELSE IF path[1] = "/"
           THEN PathSegments(Tail(path))
           ELSE LET stops == {k \in 1..Len(path) : path[k] = "/"}
                    n == IF stops = {} THEN Len(path) ELSE MinOf(stops) - 1
                IN  <<SubSeq(path, 1, n)>> \o PathSegments(SubSeq(path, n + 1, Len(path)))

\* path l is path p or below it, segment by segment
AtOrUnder(l, p) ==
  LET ls == PathSegments(l)
      ps == PathSegments(p)
  IN  Len(ps) <= Len(ls) /\ SubSeq(ls, 1, Len(ps)) = ps

\* C14: within one crawl session no URL is the target of more than one
\* page fetch, whether the earlier fetch succeeded or failed.
UrlFetchedAtMostOnce ==
  \A i, j \in 1..Len(PageFetches) :
    i < j => PageFetches[i].url # PageFetches[j].url

\* C15: the visited set never holds more than maxPages URLs and at most
\* maxPages page records are collected, also when URLs are left in the
\* frontier.
VisitedWithinCap ==
  /\ Cardinality(crawl.visitedUrls) <= maxPages
  /\ Len(crawl.allContent) <= maxPages

\* the session returned at the cap with URLs left in the frontier
VisitedWithinCapWitness ==
  /\ crawl.pc = "returned"
  /\ Cardinality(crawl.visitedUrls) = maxPages
  /\ Len(crawl.allContent) = maxPages
  /\ Len(crawl.urlsToVisit) > 0

\* C16: every URL the session has queued or fetched, or is about to fetch,
\* has the origin of the seed URL.
CrawlStaysOnSeedOrigin ==
  crawl.pc \notin {"idle"} =>
    /\ \A k \in 1..Len(crawl.urlsToVisit) : crawl.urlsToVisit[k].origin = crawl.seed.origin
    /\ \A k \in 1..Len(crawl.enqueued) : crawl.enqueued[k].link.origin = crawl.seed.origin
    /\ \A k \in 1..Len(crawl.fetches) : crawl.fetches[k].url.origin = crawl.seed.origin
    /\ crawl.pc \in {"page", "links", "delay"} => crawl.currentUrl.origin = crawl.seed.origin
    /\ \A u \in crawl.visitedUrls : u.origin = crawl.seed.origin

\* the links of a fetched page that has an anchor to another origin were
\* queued, and a page found through them was fetched
CrawlStaysOnSeedOriginWitness ==
  /\ Len(crawl.enqueued) > 0
  /\ \E u \in crawl.visitedUrls :
       /\ \E k \in 1..Len(Web[<<u.origin, u.path>>].links) :
            Web[<<u.origin, u.path>>].links[k].origin # u.origin
       /\ \E k \in 1..Len(crawl.enqueued) :
            /\ crawl.enqueued[k].from = u
            /\ crawl.enqueued[k].link \in crawl.visitedUrls

\* C17: a link found on a page at a non-root path is queued only if its
\* path is the page's path or below it, segment by segment, and has at
\* least as many segments.
QueuedLinksAreUnderPage ==
  \A k \in 1..Len(crawl.enqueued) :
    LET l == crawl.enqueued[k].link.path
        p == crawl.enqueued[k].from.path
    IN  p # <<"/">> =>
          /\ AtOrUnder(l, p)
          /\ Len(PathSegments(l)) >= Len(PathSegments(p))

\* C18: a session ends only when the frontier is empty or the cap is
\* reached, never because a page failed, and it throws exactly when no page
\* fetch gave text that is not blank.
PageFailureNeverAborts ==
  crawl.pc \in {"returned", "threw"} =>
    /\ crawl.seed # InvalidUrl => ~LoopContinues(crawl)
    /\ crawl.pc = "threw" <=>
         ~\E k \in 1..Len(PageFetches) :
              PageFetches[k].ok /\ Len(PageFetches[k].content) > 0

\* a session returned although a page fetch failed, and fetched another
\* page after the failure
PageFailureNeverAbortsWitness ==
  /\ crawl.pc = "returned"
  /\ \E i, j \in 1..Len(PageFetches) :
       i < j /\ ~PageFetches[i].ok /\ PageFetches[j].ok

\* seq is the end of whole
IsSuffix(seq, whole) ==
  /\ Len(seq) <= Len(whole)
  /\ seq = SubSeq(whole, Len(whole) - Len(seq) + 1, Len(whole))

\* the URLs in the order the session discovered them: the seed, then the
\* links in the order they were pushed
Discovery == <<crawl.seed>> \o [k \in 1..Len(crawl.enqueued) |-> crawl.enqueued[k].link]

\* the page fetches that gave text that is not blank, in fetch order
PagesWithText == SelectSeq(PageFetches, LAMBDA f : f.ok /\ Len(f.content) > 0)

\* C27: a session fetches pages in first-in first-out order of discovery
\* starting from the seed: the frontier is the end of the discovery order,
\* the next page fetched is the first frontier URL that is not visited,
\* links are pushed at the back, never one that is visited or queued, and
\* the page records are kept in fetch order.
CrawlIsBreadthFirst ==
  [][LET q == crawl.urlsToVisit
         q2 == crawl'.urlsToVisit
         pushed == SubSeq(q2, Len(q) + 1, Len(q2))
     IN  /\ (crawl.pc = "idle" /\ crawl'.pc = "page")
              => crawl'.currentUrl = crawl'.seed /\ q2 = <<>>
         /\ (crawl.pc \in {"page", "delay"} /\ crawl'.pc = "page")
              => \E k \in 1..Len(q) :
                   /\ crawl'.currentUrl = q[k]
                   /\ q[k] \notin crawl.visitedUrls
                   /\ \A j \in 1..(k - 1) : q[j] \in crawl.visitedUrls
                   /\ q2 = SubSeq(q, k + 1, Len(q))
         /\ crawl.pc = "links"
              => /\ Len(q2) >= Len(q)
                 /\ SubSeq(q2, 1, Len(q)) = q
                 /\ \A k \in 1..Len(pushed) :
                      /\ pushed[k] \notin crawl.visitedUrls
                      /\ \A j \in 1..Len(q) : q[j] # pushed[k]
                      /\ \A j \in 1..(k - 1) : pushed[j] # pushed[k]
         /\ crawl'.pc \in {"page", "links", "delay", "returned"}
              => /\ IsSuffix(q2, Discovery')
                 /\ Len(crawl'.allContent) = Len(PagesWithText')
                 /\ \A k \in 1..Len(crawl'.allContent) :
                      /\ crawl'.allContent[k].url = PagesWithText'[k].url
                      /\ crawl'.allContent[k].pageContent = PagesWithText'[k].content]_vars

\* a session returned after fetching a page found on a page that is not the
\* seed, with page records of several pages
CrawlIsBreadthFirstWitness ==
  /\ crawl.pc = "returned"
  /\ Len(crawl.allContent) >= 3
  /\ \E k \in 1..Len(crawl.enqueued) :
       /\ crawl.enqueued[k].from # crawl.seed
       /\ \E i \in 1..Len(PageFetches) : PageFetches[i].url = crawl.enqueued[k].link

\* C28: the delay is honored between successive page fetches: a page fetch
\* is issued only as the first of the session or when the delay has just
\* run, also after a page fetch that failed.
DelayBetweenPageFetches ==
  [][crawl'.pc = "page" => crawl.pc \in {"idle", "delay"}]_vars

\* every URL a session can meet: the seeds and the anchors of the pages
CrawlUrls ==
  CrawlSeeds \cup UNION {{Web[key].links[k] : k \in 1..Len(Web[key].links)} : key \in DOMAIN Web}

\* what is left of a session: the URLs not yet visited weigh most, then the
\* length of the frontier, then the awaits left in the loop body
CrawlRank ==
  (4 * Cardinality(CrawlUrls) + 4) * Cardinality(CrawlUrls \ crawl.visitedUrls)
    + 4 * Len(crawl.urlsToVisit)
    + CASE crawl.pc = "page" -> 3
        [] crawl.pc = "links" -> 2
        [] crawl.pc = "delay" -> 1
        [] OTHER -> 0

\* C29: a session terminates whatever page fetches fail: every step of a
\* running session lowers what is left of it, a natural number, and a
\* session that waits for a page can always go on, although a URL whose
\* fetch failed is not added to the visited set.
CrawlTerminates ==
  [][/\ crawl.pc # "idle" => CrawlRank' < CrawlRank
     /\ crawl'.pc \in {"page", "links"} => GetOutcomes(crawl'.currentUrl) # {}
     /\ crawl'.pc \notin {"idle", "page", "links", "delay"}
          => ~LoopContinues(crawl') \/ crawl'.seed = InvalidUrl]_vars

\* a session returned although the fetch of one URL failed twice, the URL
\* being queued again in between, and the URL is not in the visited set
CrawlTerminatesWitness ==
  /\ crawl.pc = "returned"
  /\ \E i, j \in 1..Len(PageFetches) :
       /\ i < j
       /\ PageFetches[i].url = PageFetches[j].url
       /\ ~PageFetches[i].ok
       /\ ~PageFetches[j].ok
       /\ PageFetches[i].url \notin crawl.visitedUrls

----------------------------------------------------------------------------
(* generateEmbeddings: the requests in flight *)

\* the embedder requests of the call e that were issued and have not settled
InFlight(e) ==
  CASE e.pc = "batch" ->
         Cardinality({p \in 1..Len(e.batch) : e.batchEmbeddings[p] = Pending})
    [] e.pc = "failed" -> e.orphans
    [] OTHER -> 0

\* C30: at most batchSize embedder requests are in flight at any time; the
\* requests of a batch are issued only when no request is in flight and
\* every text before the batch has its embedding; and when a request of a
\* batch fails the call fails and issues nothing more.
BatchesRunOneAtATime ==
  [][/\ InFlight(emb') <= batchSize
     /\ (emb'.pc = "batch" /\ (emb.pc # "batch" \/ emb'.i # emb.i))
          => /\ InFlight(emb) = 0
             /\ emb.pc # "failed"
             /\ Len(emb'.embeddings) = emb'.i
             /\ \A k \in 1..emb'.i : emb'.embeddings[k] = EmbedderAnswer(emb'.texts[k])
             /\ InFlight(emb') = Min(batchSize, Len(emb'.texts) - emb'.i)
     /\ (emb.pc = "batch" /\ emb'.pc # "batch" /\ InFlight(emb) > 0)
          => emb'.pc = "failed"
     /\ emb.pc = "failed"
          => emb'.pc = "failed" /\ InFlight(emb') < InFlight(emb)]_vars

\* a call over two batches failed in its first batch while other requests
\* of that batch were in flight
BatchesRunOneAtATimeWitness ==
  /\ emb.pc = "failed"
  /\ Len(emb.texts) > batchSize
  /\ emb.i = 0
  /\ emb.orphans > 0

\* C34: every URL placed in the frontier is fragment-stripped, so two links
\* that differ only in their fragment are one frontier entry and the page
\* they name is fetched once.
FrontierIsFragmentStripped ==
  /\ \A k \in 1..Len(crawl.urlsToVisit) : crawl.urlsToVisit[k].hash = ""
  /\ \A k \in 1..Len(crawl.enqueued) : crawl.enqueued[k].link.hash = ""
  /\ \A i, j \in 1..Len(PageFetches) :
       (/\ i < j
        /\ PageFetches[i].ok
        /\ PageFetches[i].url.origin = PageFetches[j].url.origin
        /\ PageFetches[i].url.path = PageFetches[j].url.path
        /\ PageFetches[i].url.search = PageFetches[j].url.search)
         => PageFetches[i].url.hash = PageFetches[j].url.hash

\* C36: in a single session the frontier never holds a URL twice and never
\* holds a URL that is in the visited set, so the test for a visited URL
\* right after the shift is never true: every URL shifted off the frontier
\* is fetched.
FrontierHasNoVisitedUrl ==
  [][/\ \A i, j \in 1..Len(crawl'.urlsToVisit) :
          i < j => crawl'.urlsToVisit[i] # crawl'.urlsToVisit[j]
     /\ \A k \in 1..Len(crawl'.urlsToVisit) :
          crawl'.urlsToVisit[k] \notin crawl'.visitedUrls
     /\ (crawl.pc \in {"page", "delay"} /\ crawl'.pc = "page")
          => Len(crawl'.urlsToVisit) = Len(crawl.urlsToVisit) - 1]_vars

\* a session returned in which a page was fetched whose links name a URL
\* fetched and visited before it, and that link was not queued from the page
FrontierHasNoVisitedUrlWitness ==
  /\ crawl.pc = "returned"
  /\ \E i, j \in 1..Len(PageFetches) :
       LET u == PageFetches[j].url
           l == PageFetches[i].url
           links == extractLinks(u, Web[<<u.origin, u.path>>].links)
       IN  /\ i < j
           /\ PageFetches[i].ok
           /\ PageFetches[j].ok
           /\ l \in crawl.visitedUrls
           /\ u \in crawl.visitedUrls
           /\ \E k \in 1..Len(links) : links[k] = l
           /\ ~\E k \in 1..Len(crawl.enqueued) :
                  crawl.enqueued[k].link = l /\ crawl.enqueued[k].from = u

----------------------------------------------------------------------------
(* WebScraperService: two scrapeWebsite calls on the one service *)

\* WebScraperService is an injectable singleton: visitedUrls is a field of
\* the service, while allContent and urlsToVisit are locals of each call.
\* A session record of pair keeps, in its visitedUrls field, the URLs that
\* session added itself; what the code reads and writes is pair.visitedUrls.

\* the baseUrl arguments of the two calls
PairSeeds == {Url(SiteOrigin, PathRoot), Url(SiteOrigin, PathA)}

\* the session of run r as its code sees it: its locals and the field
PairView(r) == [pair.session[r] EXCEPT !.visitedUrls = pair.visitedUrls]

\* the field and the locals after a step of the session of run r that
\* leaves it as c, having added the URLs in own itself so far
PairStore(r, c, own) ==
  pair' = [visitedUrls |-> c.visitedUrls,
           session |-> [pair.session EXCEPT ![r] = [c EXCEPT !.visitedUrls = own]]]

PairFrame == UNCHANGED <<chunkVars, ragVars, found, emb, crawl>>

\* scrapeWebsite(baseUrl) is called by run r: this.visitedUrls.clear()
PairStart(r, baseUrl) ==
  /\ pair.session[r].pc = "idle"
  /\ PairStore(r, LoopHead([IdleCrawl EXCEPT !.seed = baseUrl, !.baseUrl = baseUrl.origin,
                                             !.visitedUrls = {},
                                             !.urlsToVisit = <<baseUrl>>]), {})
  /\ PairFrame

\* await scrapeSinglePage(currentUrl) settles in the session of run r
PairPageSettles(r, outcome) ==
  /\ pair.session[r].pc = "page"
  /\ outcome \in GetOutcomes(pair.session[r].currentUrl)
  /\ LET c == PairView(r)
         url == c.currentUrl
         pageContent == IF outcome = "ok" THEN Web[<<url.origin, url.path>>].text ELSE <<>>
         logged == [c EXCEPT !.fetches =
                      Append(c.fetches,
                             [url |-> url, by |-> "scrapeSinglePage",
                              ok |-> outcome = "ok", content |-> pageContent])]
     IN  PairStore(r,
                   IF outcome = "ok"
                     THEN [logged EXCEPT
                             !.pc = "links",
                             !.allContent = IF Len(pageContent) > 0
                                              THEN Append(c.allContent,
                                                          [url |-> url,
                                                           pageContent |-> pageContent])
                                              ELSE c.allContent]
                     ELSE AfterPageFailure(logged),
                   pair.session[r].visitedUrls)
  /\ PairFrame

\* await extractLinks(currentUrl) settles in the session of run r: links
\* are queued against the field, and currentUrl is added to the field
PairLinksSettle(r, outcome) ==
  /\ pair.session[r].pc = "links"
  /\ outcome \in GetOutcomes(pair.session[r].currentUrl)
  /\ LET c == PairView(r)
         url == c.currentUrl
         links == IF outcome = "ok"
                    THEN extractLinks(url, Web[<<url.origin, url.path>>].links)
                    ELSE <<>>
         queue == PushLinks(c.urlsToVisit, c.visitedUrls, links)
         pushed == SubSeq(queue, Len(c.urlsToVisit) + 1, Len(queue))
     IN  PairStore(r,
                   [c EXCEPT
                      !.pc = "delay",
                      !.urlsToVisit = queue,
                      !.visitedUrls = c.visitedUrls \cup {url},
                      !.fetches = Append(c.fetches,
                                         [url |-> url, by |-> "extractLinks",
                                          ok |-> outcome = "ok", content |-> <<>>]),
                      !.enqueued = c.enqueued
                                     \o [k \in 1..Len(pushed) |->
                                           [link |-> pushed[k], from |-> url]]],
                   pair.session[r].visitedUrls \cup {url})
  /\ PairFrame

\* the 500 ms timer of the session of run r fires: back to the loop head
PairDelayFires(r) ==
  /\ pair.session[r].pc = "delay"
  /\ PairStore(r, LoopHead(PairView(r)), pair.session[r].visitedUrls)
  /\ PairFrame

PairNext ==
  \/ \E r \in InitRuns, baseUrl \in PairSeeds : PairStart(r, baseUrl)
  \/ \E r \in InitRuns, outcome \in {"ok", "fail"} : PairPageSettles(r, outcome)
  \/ \E r \in InitRuns, outcome \in {"ok", "fail"} : PairLinksSettle(r, outcome)
  \/ \E r \in InitRuns : PairDelayFires(r)

PairSpec == CrawlInit /\ [][PairNext]_vars

\* C33: the visited set belongs to one session: while a session runs, no
\* step of the other session changes the visited set that session reads.
SessionsKeepOwnVisited ==
  [][\A r \in InitRuns :
       (pair.session[r].pc \in {"page", "links", "delay"}
          /\ pair'.session[r] = pair.session[r])
         => pair'.visitedUrls = pair.visitedUrls]_vars

====
